---- MODULE Spec2Model ----
(***************************************************************************)
(* Playback sequencing of the QuranAudio component                         *)
(* (src/src/components/QuranAudio.tsx).                                    *)
(*                                                                         *)
(* The component is a React function component.  Every event handler runs  *)
(* to completion, React commits the queued state updates, re-renders and   *)
(* re-runs the effects before the next event is delivered; one action of   *)
(* this module is one such handler together with the commit that follows   *)
(* it.  The continuation of an `await new Promise(r => setTimeout(r, d))`  *)
(* is a pending timer: a record holding what the closure captured.         *)
(*                                                                         *)
(* Indices are the 0-based JavaScript indices of the source.               *)
(***************************************************************************)
EXTENDS Integers, Sequences, FiniteSets, TLC

(***************************************************************************)
(* Bounds of the model.                                                    *)
(***************************************************************************)
MaxSurahs == 2     \* surahs in a response
MaxItems  == 3     \* ayahs in a response, all surahs together
MaxTimers == 1     \* pending setTimeout continuations
MaxPx     == 3     \* pixels of a height or an offset in a small layout

\* surah numbers are drawn from 1..MaxNumber, so that lists with a gap occur
MaxNumber == MaxSurahs + 1

(***************************************************************************)
(* JavaScript values.                                                      *)
(***************************************************************************)
\* null of `number | null` state (currentSurah, currentAyah); like the -1 of
\* findIndex it is no valid number and no valid index
NULL == -1

\* `audio?: string` left out of the response
Undefined == "undefined"

\* error state before any failure: useState<string | null>(null)
NoError == "null"

\* arr[i] is defined
Has(arr, i) == i \in 0 .. (Len(arr) - 1)

\* arr[i] for a defined position
At(arr, i) == arr[i + 1]

\* Array.prototype.findIndex over records with a number: the first 0-based
\* position whose number is n, or -1
FindIndex(numbers, n) ==
  IF \E k \in 1 .. Len(numbers) : numbers[k] = n
  THEN (CHOOSE k \in 1 .. Len(numbers) :
          numbers[k] = n /\ \A j \in 1 .. (k - 1) : numbers[j] # n) - 1
  ELSE -1

\* truthiness of a `number | null`
Truthy(n) == n # NULL /\ n # 0

(***************************************************************************)
(* Responses of the content API (QuranResponse.data.surahs).  Labels       *)
(* (name, englishName) are display-only and left out.                      *)
(***************************************************************************)
Url(n, ai) == "u" \o ToString(n) \o "." \o ToString(ai)

TextOf(tag, n, ai) == tag \o ToString(n) \o "." \o ToString(ai)

\* the ayah lists a surah numbered n can carry in the recitation edition:
\* each ayah either has an audio locator or has none
RawAyahLists(n) ==
  UNION { { [ai \in 1 .. len |->
               [number |-> n * 10 + ai,
                audio  |-> IF hasAudio[ai] THEN Url(n, ai) ELSE Undefined,
                text   |-> TextOf("ar", n, ai)]] :
            hasAudio \in [1 .. len -> BOOLEAN] } :
          len \in 0 .. MaxItems }

RawSurahs ==
  UNION { { [number |-> n, ayahs |-> al] : al \in RawAyahLists(n) } :
          n \in 1 .. MaxNumber }

RECURSIVE TotalAyahs(_)
TotalAyahs(ed) ==
  IF ed = <<>> THEN 0 ELSE Len(Head(ed).ayahs) + TotalAyahs(Tail(ed))

\* the surah s can follow the surahs of ed: numbers ascend, as the API sends
\* them, and the response stays within MaxItems ayahs
Follows(ed, s) ==
  /\ ed # <<>> => ed[Len(ed)].number < s.number
  /\ TotalAyahs(ed) + Len(s.ayahs) <= MaxItems

\* the responses with k surahs
RECURSIVE EditionsOfLen(_)
EditionsOfLen(k) ==
  IF k = 0 THEN { <<>> }
  ELSE UNION { { Append(ed, s) : s \in { r \in RawSurahs : Follows(ed, r) } } :
               ed \in EditionsOfLen(k - 1) }

\* responses for ar.alafasy
ArEditions == UNION { EditionsOfLen(k) : k \in 0 .. MaxSurahs }

\* the edition with the shape of ar and its own texts
Parallel(ar, tag) ==
  [si \in 1 .. Len(ar) |->
     [number |-> ar[si].number,
      ayahs  |-> [ai \in 1 .. Len(ar[si].ayahs) |->
                    [number |-> ar[si].ayahs[ai].number,
                     audio  |-> Undefined,
                     text   |-> TextOf(tag, ar[si].number, ai)]]]]

TrEditions(ar) == { Parallel(ar, "tr") }

EnEditions(ar) == { Parallel(ar, "en") }

\* the translation editions are separate documents: their section and item
\* counts can diverge from those of the recitation edition
DropLastSurah(ed) == SubSeq(ed, 1, Len(ed) - 1)

DropFirstSurah(ed) == SubSeq(ed, 2, Len(ed))

DropLastAyahs(ed) ==
  [si \in 1 .. Len(ed) |->
     [number |-> ed[si].number,
      ayahs  |-> SubSeq(ed[si].ayahs, 1, Len(ed[si].ayahs) - 1)]]

\* the responses a text edition can be when the recitation edition is ar
DivergentEditions(ar, tag) ==
  { Parallel(ar, tag), DropLastSurah(Parallel(ar, tag)),
    DropFirstSurah(Parallel(ar, tag)), DropLastAyahs(Parallel(ar, tag)), <<>> }

(***************************************************************************)
(* State.                                                                  *)
(***************************************************************************)
VARIABLES
  ayahs,          \* useState<Ayah[]>: the merged items
  surahs,         \* useState: the section list
  currentSurah,   \* useState<number | null>
  currentAyah,    \* useState<number | null>
  loading,        \* useState(true)
  error,          \* useState<string | null>
  audioRef,       \* the <audio> element: [current |-> mounted, src |-> its src]
  timers,         \* pending setTimeout continuations of handleEnded, oldest first
  cmd,            \* output of the last step: the play() call it made, if any
  ev,             \* the last event handled: [op, arg]
  responses,      \* the three responses fetchAll received
  darkMode,       \* useState(false)
  prefersReducedMotion,   \* useState(false), set from the media query
  surahFrames,    \* frame callbacks of the section effect the browser holds,
                  \* in the order requested
  ayahFrames,     \* frame callbacks of the item effect the browser holds
  measure,        \* DOM geometry a frame callback reads
  scrolled        \* output of the last step: the scrollTo call it made, if any

\* the state of the sequencer
coreVars == <<ayahs, surahs, currentSurah, currentAyah, loading, error,
              audioRef, timers, cmd, ev>>

\* the state of the focus synchronizer and of the theme
uiVars == <<darkMode, prefersReducedMotion, surahFrames, ayahFrames, measure,
            scrolled>>

vars == <<ayahs, surahs, currentSurah, currentAyah, loading, error,
          audioRef, timers, cmd, ev, responses, darkMode,
          prefersReducedMotion, surahFrames, ayahFrames, measure, scrolled>>

NoCmd == [play |-> FALSE, src |-> ""]

Play(src) == [play |-> TRUE, src |-> src]

(***************************************************************************)
(* fetchAll: the merge of the three editions.                              *)
(***************************************************************************)
\* a.audio || ""
OrEmpty(a) == IF a = Undefined \/ a = "" THEN "" ELSE a

\* ed.surahs?.[si]?.ayahs?.[ai]?.text ?? ""
TextAt(ed, si, ai) ==
  IF Has(ed, si) /\ Has(At(ed, si).ayahs, ai)
  THEN At(At(ed, si).ayahs, ai).text
  ELSE ""

surahList(ar) == [si \in 1 .. Len(ar) |-> [number |-> ar[si].number]]

\* a merge that matches the surahs of the editions by their number, wherever
\* they stand in the text editions
mergedAyahsByNumber(ar, tr, en, si) ==
  LET n == At(ar, si).number
      byNumber(ed, ai) ==
        LET at == FindIndex([k \in 1 .. Len(ed) |-> ed[k].number], n)
        IN  IF at # -1 /\ Has(At(ed, at).ayahs, ai)
            THEN At(At(ed, at).ayahs, ai).text
            ELSE ""
  IN  [k \in 1 .. Len(At(ar, si).ayahs) |->
         [number          |-> At(ar, si).ayahs[k].number,
          audio           |-> OrEmpty(At(ar, si).ayahs[k].audio),
          text            |-> At(ar, si).ayahs[k].text,
          transliteration |-> byNumber(tr, k - 1),
          translation     |-> byNumber(en, k - 1),
          surah           |-> [number |-> n]]]

\* s.ayahs.map((a, ai) => ...) of the surah at 0-based position si
mergedAyahs(ar, tr, en, si) ==
  [k \in 1 .. Len(At(ar, si).ayahs) |->
     [number          |-> At(ar, si).ayahs[k].number,
      audio           |-> OrEmpty(At(ar, si).ayahs[k].audio),
      text            |-> At(ar, si).ayahs[k].text,
      transliteration |-> TextAt(tr, si, k - 1),
      translation     |-> TextAt(en, si, k - 1),
      surah           |-> [number |-> At(ar, si).number]]]

RECURSIVE flatMapFrom(_, _, _, _)
flatMapFrom(ar, tr, en, si) ==
  IF ~Has(ar, si) THEN <<>>
  ELSE mergedAyahs(ar, tr, en, si) \o flatMapFrom(ar, tr, en, si + 1)

combined(ar, tr, en) == flatMapFrom(ar, tr, en, 0)

(***************************************************************************)
(* Derived render values.                                                  *)
(***************************************************************************)
\* ayahs.filter((a) => a.surah.number === n)
ayahsOf(n) == SelectSeq(ayahs, LAMBDA a : a.surah.number = n)

filteredAyahs == IF Truthy(currentSurah) THEN ayahsOf(currentSurah) ELSE <<>>

\* the early returns of the render: the player is on screen
Rendered == ~loading /\ error = NoError

\* the <audio> element is rendered iff currentSurah is truthy; a freshly
\* mounted element has the empty src
Commit(cs, src) == [current |-> Truthy(cs), src |-> src]

(***************************************************************************)
(* Init: the state after the first render, fetchAll in flight.             *)
(***************************************************************************)
\* no requestAnimationFrame callback is pending
NoFrame == [pending |-> FALSE, index |-> NULL, instant |-> FALSE]

\* no scrollTo call was made
NoScroll == [container |-> "none", index |-> NULL, top2 |-> 0, instant |-> FALSE]

\* nothing received yet
NoResponses == [ar |-> <<>>, tr |-> <<>>, en |-> <<>>]

\* a requestAnimationFrame callback is pending: it closes over the element
\* at index and over prefersReducedMotion
Frame(index, instant) == [pending |-> TRUE, index |-> index, instant |-> instant]

\* geometry of the layout: container.clientHeight H, node.offsetTop T and
\* node.offsetHeight E, in pixels
DefaultMeasure == [H |-> 400, T |-> 1000, E |-> 50]

\* the geometries of small layouts, and the default one
Measures ==
  [H : 0 .. MaxPx, T : 0 .. MaxPx, E : 0 .. MaxPx] \cup { DefaultMeasure }

\* the state after the first render and its effects: fetchAll is in flight,
\* updatePreference(media) has delivered media.matches, the layout is m
InitWith(matches, m) ==
  /\ ayahs = <<>>
  /\ surahs = <<>>
  /\ currentSurah = NULL
  /\ currentAyah = NULL
  /\ loading = TRUE
  /\ error = NoError
  /\ audioRef = [current |-> FALSE, src |-> ""]
  /\ timers = <<>>
  /\ cmd = NoCmd
  /\ ev = [op |-> "init", arg |-> NULL]
  /\ responses = NoResponses
  /\ darkMode = FALSE
  /\ prefersReducedMotion = matches
  /\ surahFrames = <<>>
  /\ ayahFrames = <<>>
  /\ measure = m
  /\ scrolled = NoScroll

Init == InitWith(FALSE, DefaultMeasure)

\* fetchAll when the three requests delivered ar, tr and en
fetchAll(ar, tr, en) ==
  /\ loading
  /\ responses' = [ar |-> ar, tr |-> tr, en |-> en]
  /\ surahs' = surahList(ar)
  /\ ayahs' = combined(ar, tr, en)
  /\ loading' = FALSE
  /\ cmd' = NoCmd
  /\ ev' = [op |-> "fetchOk", arg |-> NULL]
  /\ UNCHANGED <<currentSurah, currentAyah, error, audioRef, timers>>

\* the three requests are answered while the fetch is in flight
fetchAllOk ==
  /\ loading
  /\ \E ar \in ArEditions : \E tr \in TrEditions(ar) : \E en \in EnEditions(ar) :
       fetchAll(ar, tr, en)

\* a bug that keeps the section list of the edition that did arrive
fetchAllFailKeepingSections ==
  /\ loading
  /\ error' = "Failed to load"
  /\ loading' = FALSE
  /\ cmd' = NoCmd
  /\ ev' = [op |-> "fetchFail", arg |-> NULL]
  /\ \E ar \in ArEditions : Len(ar) > 0 /\ surahs' = surahList(ar)
  /\ UNCHANGED <<ayahs, currentSurah, currentAyah, audioRef, timers>>

\* one of the three requests (or the merge) threw: catch and finally
fetchAllFail ==
  /\ loading
  /\ error' = "Failed to load"
  /\ loading' = FALSE
  /\ cmd' = NoCmd
  /\ ev' = [op |-> "fetchFail", arg |-> NULL]
  /\ UNCHANGED <<ayahs, surahs, currentSurah, currentAyah, audioRef, timers>>

(***************************************************************************)
(* The two settling delays of handleEnded.                                 *)
(***************************************************************************)
AyahPause == 1000

SurahPause == 2000

\* the continuation after the 1s pause captures nothing it uses but the ref
AyahTimer == [delay |-> AyahPause, nextSurah |-> NULL]

\* the continuation after the 2s pause captures nextSurah (and ayahs, which
\* never changes after the load)
SurahTimer(n) == [delay |-> SurahPause, nextSurah |-> n]

RemoveAt(seq, k) == SubSeq(seq, 1, k - 1) \o SubSeq(seq, k + 1, Len(seq))

\* setTimeout order: a timer cannot fire before an older timer whose delay is
\* not longer than its own
CanFire(k) ==
  /\ k \in 1 .. Len(timers)
  /\ \A j \in 1 .. (k - 1) : timers[j].delay > timers[k].delay

(***************************************************************************)
(* selectSection: onClick of the surah button at 0-based position si       *)
(* (desktop and mobile lists carry the same handler).                      *)
(***************************************************************************)
\* a bug that leaves the ayah index of the previous position in place
selectSectionKeepingAyah(si) ==
  /\ Rendered
  /\ Has(surahs, si)
  /\ LET s == At(surahs, si)
         firstAyah == FindIndex([k \in 1 .. Len(ayahs) |-> ayahs[k].surah.number], s.number)
     IN  /\ currentSurah' = s.number
         /\ currentAyah' = currentAyah
         /\ IF audioRef.current /\ firstAyah # -1
            THEN /\ audioRef' = Commit(s.number, At(ayahs, firstAyah).audio)
                 /\ cmd' = Play(At(ayahs, firstAyah).audio)
            ELSE /\ audioRef' = Commit(s.number, audioRef.src)
                 /\ cmd' = NoCmd
         /\ ev' = [op |-> "selectSection", arg |-> s.number]
  /\ UNCHANGED <<ayahs, surahs, loading, error, timers>>

selectSection(si) ==
  /\ Rendered
  /\ Has(surahs, si)
  /\ LET s == At(surahs, si)
         firstAyah == FindIndex([k \in 1 .. Len(ayahs) |-> ayahs[k].surah.number], s.number)
     IN  /\ currentSurah' = s.number
         /\ currentAyah' = 0
         /\ IF audioRef.current /\ firstAyah # -1
            THEN /\ audioRef' = Commit(s.number, At(ayahs, firstAyah).audio)
                 /\ cmd' = Play(At(ayahs, firstAyah).audio)
            ELSE /\ audioRef' = Commit(s.number, audioRef.src)
                 /\ cmd' = NoCmd
         /\ ev' = [op |-> "selectSection", arg |-> s.number]
  /\ UNCHANGED <<ayahs, surahs, loading, error, timers>>

(***************************************************************************)
(* selectItem: handlePlayAyah(index), the onClick of an ayah card.         *)
(***************************************************************************)
\* a bug that clamps an out-of-range index instead of ignoring it
handlePlayAyahClamping(index) ==
  /\ Rendered
  /\ LET last == Len(filteredAyahs) - 1
         i == IF index < 0 THEN 0 ELSE IF index > last THEN last ELSE index
     IN  IF ~Has(filteredAyahs, i) \/ ~audioRef.current
         THEN /\ cmd' = NoCmd
              /\ UNCHANGED <<currentAyah, audioRef>>
         ELSE /\ audioRef' = Commit(currentSurah, At(filteredAyahs, i).audio)
              /\ cmd' = Play(At(filteredAyahs, i).audio)
              /\ currentAyah' = i
  /\ ev' = [op |-> "selectItem", arg |-> index]
  /\ UNCHANGED <<ayahs, surahs, currentSurah, loading, error, timers>>

handlePlayAyah(index) ==
  /\ Rendered
  /\ IF ~Has(filteredAyahs, index) \/ ~audioRef.current
     THEN /\ cmd' = NoCmd
          /\ UNCHANGED <<currentAyah, audioRef>>
     ELSE /\ audioRef' = Commit(currentSurah, At(filteredAyahs, index).audio)
          /\ cmd' = Play(At(filteredAyahs, index).audio)
          /\ currentAyah' = index
  /\ ev' = [op |-> "selectItem", arg |-> index]
  /\ UNCHANGED <<ayahs, surahs, currentSurah, loading, error, timers>>

(***************************************************************************)
(* onPlaybackFinished: handleEnded up to its await.  The "ended" event is  *)
(* delivered by a mounted element that has a source to play: the listener  *)
(* is attached by the effect that follows every render, and an element     *)
(* whose src is empty plays nothing.  ev.arg records the pause started.    *)
(***************************************************************************)
\* a bug that skips an ayah
nextAyahIndexSkipping == currentAyah + 2

\* const next = currentAyah + 1
nextAyahIndex == currentAyah + 1

\* a bug that passes over the following surah
nextSurahIndexSkipping ==
  FindIndex([k \in 1 .. Len(surahs) |-> surahs[k].number], currentSurah) + 2

\* a bug that wraps from the last surah to the first
nextSurahIndexWrapping ==
  (FindIndex([k \in 1 .. Len(surahs) |-> surahs[k].number], currentSurah) + 1) % Len(surahs)

nextSurahIndex ==
  FindIndex([k \in 1 .. Len(surahs) |-> surahs[k].number], currentSurah) + 1

\* a bug that tests only for a missing index
endedIgnoredOnNullOnly == currentAyah = NULL

\* if (currentAyah === null || !filteredAyahs.length || !audioRef.current)
endedIgnored ==
  currentAyah = NULL \/ Len(filteredAyahs) = 0 \/ ~audioRef.current

handleEnded ==
  /\ Rendered
  /\ audioRef.current
  /\ audioRef.src # ""
  /\ IF endedIgnored
     THEN /\ ev' = [op |-> "ended", arg |-> 0]
          /\ cmd' = NoCmd
          /\ UNCHANGED <<currentAyah, audioRef, timers>>
     ELSE LET next == nextAyahIndex IN
          IF next < Len(filteredAyahs)
          THEN /\ Len(timers) < MaxTimers
               /\ currentAyah' = next
               /\ audioRef' = Commit(currentSurah, At(filteredAyahs, next).audio)
               /\ timers' = Append(timers, AyahTimer)
               /\ cmd' = NoCmd
               /\ ev' = [op |-> "ended", arg |-> AyahPause]
          ELSE IF Has(surahs, nextSurahIndex)
               THEN /\ Len(timers) < MaxTimers
                    /\ timers' = Append(timers,
                                   SurahTimer(At(surahs, nextSurahIndex).number))
                    /\ cmd' = NoCmd
                    /\ ev' = [op |-> "ended", arg |-> SurahPause]
                    /\ UNCHANGED <<currentAyah, audioRef>>
               ELSE /\ ev' = [op |-> "ended", arg |-> 0]
                    /\ cmd' = NoCmd
                    /\ UNCHANGED <<currentAyah, audioRef, timers>>
  /\ UNCHANGED <<ayahs, surahs, currentSurah, loading, error>>

(***************************************************************************)
(* The rest of handleEnded after the 1s pause: play() on the element.      *)
(***************************************************************************)
\* a bug that sets the index again after the pause
ayahPauseElapsedAdvancing(k) ==
  /\ CanFire(k)
  /\ timers[k].delay = AyahPause
  /\ timers' = RemoveAt(timers, k)
  /\ currentAyah' = currentAyah + 1
  /\ cmd' = Play(audioRef.src)
  /\ ev' = [op |-> "timer1s", arg |-> NULL]
  /\ UNCHANGED <<ayahs, surahs, currentSurah, loading, error, audioRef>>

ayahPauseElapsed(k) ==
  /\ CanFire(k)
  /\ timers[k].delay = AyahPause
  /\ timers' = RemoveAt(timers, k)
  /\ cmd' = Play(audioRef.src)
  /\ ev' = [op |-> "timer1s", arg |-> NULL]
  /\ UNCHANGED <<ayahs, surahs, currentSurah, currentAyah, loading, error,
                 audioRef>>

(***************************************************************************)
(* The rest of handleEnded after the 2s pause: move to the captured        *)
(* nextSurah and play its first ayah.                                      *)
(***************************************************************************)
surahPauseElapsed(k) ==
  /\ CanFire(k)
  /\ timers[k].delay = SurahPause
  /\ timers' = RemoveAt(timers, k)
  /\ LET nextSurah == timers[k].nextSurah
         nextSurahAyahs == ayahsOf(nextSurah)
     IN  /\ currentSurah' = nextSurah
         /\ currentAyah' = 0
         /\ IF Len(nextSurahAyahs) # 0 /\ audioRef.current
            THEN /\ audioRef' = Commit(nextSurah, At(nextSurahAyahs, 0).audio)
                 /\ cmd' = Play(At(nextSurahAyahs, 0).audio)
            ELSE /\ audioRef' = Commit(nextSurah, audioRef.src)
                 /\ cmd' = NoCmd
         /\ ev' = [op |-> "timer2s", arg |-> nextSurah]
  /\ UNCHANGED <<ayahs, surahs, loading, error>>

(***************************************************************************)
(* play().catch(console.error): the promise of the play() call of the last *)
(* step rejects (a broken link, an empty source); the rejection is logged  *)
(* and nothing else happens.                                               *)
(***************************************************************************)
\* a bug that surfaces the rejection as the blocking error state
playRejectedSettingError ==
  /\ cmd.play
  /\ cmd' = NoCmd
  /\ ev' = [op |-> "playRejected", arg |-> NULL]
  /\ error' = "Playback failed"
  /\ UNCHANGED <<ayahs, surahs, currentSurah, currentAyah, loading,
                 audioRef, timers>>

playRejected ==
  /\ cmd.play
  /\ cmd' = NoCmd
  /\ ev' = [op |-> "playRejected", arg |-> NULL]
  /\ UNCHANGED <<ayahs, surahs, currentSurah, currentAyah, loading, error,
                 audioRef, timers>>

(***************************************************************************)
(* The sequencer on its own: theme, preference and scroll frames at rest.  *)
(***************************************************************************)
Next ==
  \/ fetchAllOk /\ UNCHANGED uiVars
  \/ fetchAllFail /\ UNCHANGED <<responses, uiVars>>
  \/ \E si \in 0 .. (MaxSurahs - 1) :
       selectSection(si) /\ UNCHANGED <<responses, uiVars>>
  \/ \E index \in -1 .. MaxItems :
       handlePlayAyah(index) /\ UNCHANGED <<responses, uiVars>>
  \/ handleEnded /\ UNCHANGED <<responses, uiVars>>
  \/ \E k \in 1 .. MaxTimers :
       ayahPauseElapsed(k) /\ UNCHANGED <<responses, uiVars>>
  \/ \E k \in 1 .. MaxTimers :
       surahPauseElapsed(k) /\ UNCHANGED <<responses, uiVars>>
  \/ playRejected /\ UNCHANGED <<responses, uiVars>>

Spec == Init /\ [][Next]_vars

(***************************************************************************)
(* The focus synchronizer: the two scroll effects.  A layout effect runs   *)
(* in the commit of the step that changed one of its dependencies: its     *)
(* cleanup cancels the frame it had requested, its body requests a new     *)
(* one unless it returns early.  Offsets are kept in half pixels (top2 is  *)
(* twice the `top` of scrollTo), so that H / 2 and E / 2 stay exact.       *)
(***************************************************************************)
Max(a, b) == IF a >= b THEN a ELSE b

\* the offset without Math.max
surahScrollTop2Unclamped(m) == 2 * m.T - m.H + m.E

\* Math.max(node.offsetTop - container.clientHeight / 2
\*            + node.offsetHeight / 2, 0) of the section selector
surahScrollTop2(m) == Max(2 * m.T - m.H + m.E, 0)

\* the same computation of the item list
ayahScrollTop2(m) == Max(2 * m.T - m.H + m.E, 0)

\* the frame an effect holds for its cleanup: the one it requested last, while
\* the browser has not run it
HeldFrame(frames) == IF frames = <<>> THEN NoFrame ELSE frames[Len(frames)]

surahFrame == HeldFrame(surahFrames)

ayahFrame == HeldFrame(ayahFrames)

\* window.requestAnimationFrame(callback)
requestAnimationFrame(frames, frame) == Append(frames, frame)

\* a bug that returns no cleanup, so that nothing is ever cancelled
cancelAnimationFrameForgotten(frames) == frames

\* return () => window.cancelAnimationFrame(frame): the cleanup of the run
\* before takes the frame that run requested from the browser, if it is
\* still there
cancelAnimationFrame(frames) ==
  IF frames = <<>> THEN <<>> ELSE SubSeq(frames, 1, Len(frames) - 1)

\* a bug that leaves prefersReducedMotion out of the dependencies
surahScrollEffectIgnoringPreference ==
  IF <<currentSurah', surahs'>> = <<currentSurah, surahs>>
  THEN surahFrames' = surahFrames
  ELSE LET index == FindIndex([k \in 1 .. Len(surahs') |-> surahs'[k].number],
                              currentSurah')
       IN  IF currentSurah' = NULL \/ index = -1 \/ ~Rendered'
           THEN surahFrames' = cancelAnimationFrame(surahFrames)
           ELSE surahFrames' = requestAnimationFrame(
                  cancelAnimationFrame(surahFrames),
                  Frame(index, prefersReducedMotion'))

\* useLayoutEffect(..., [currentSurah, surahs, prefersReducedMotion])
surahScrollEffect ==
  IF <<currentSurah', surahs', prefersReducedMotion'>>
       = <<currentSurah, surahs, prefersReducedMotion>>
  THEN surahFrames' = surahFrames
  ELSE LET index == FindIndex([k \in 1 .. Len(surahs') |-> surahs'[k].number],
                              currentSurah')
       IN  IF currentSurah' = NULL \/ index = -1 \/ ~Rendered'
           THEN surahFrames' = cancelAnimationFrame(surahFrames)
           ELSE surahFrames' = requestAnimationFrame(
                  cancelAnimationFrame(surahFrames),
                  Frame(index, prefersReducedMotion'))

\* a bug that leaves currentSurah out of the dependencies
ayahScrollEffectOnItemOnly ==
  IF <<currentAyah', prefersReducedMotion'>> = <<currentAyah, prefersReducedMotion>>
  THEN ayahFrames' = ayahFrames
  ELSE IF currentAyah' = NULL \/ ~Truthy(currentSurah')
            \/ ~Has(filteredAyahs', currentAyah')
       THEN ayahFrames' = cancelAnimationFrame(ayahFrames)
       ELSE ayahFrames' = requestAnimationFrame(
              cancelAnimationFrame(ayahFrames),
              Frame(currentAyah', prefersReducedMotion'))

\* useLayoutEffect(..., [currentAyah, currentSurah, prefersReducedMotion]):
\* ayahScrollRef is mounted while a section is shown, ayahRefs[i] while the
\* section has an item i
ayahScrollEffect ==
  IF <<currentAyah', currentSurah', prefersReducedMotion'>>
       = <<currentAyah, currentSurah, prefersReducedMotion>>
  THEN ayahFrames' = ayahFrames
  ELSE IF currentAyah' = NULL \/ ~Truthy(currentSurah')
            \/ ~Has(filteredAyahs', currentAyah')
       THEN ayahFrames' = cancelAnimationFrame(ayahFrames)
       ELSE ayahFrames' = requestAnimationFrame(
              cancelAnimationFrame(ayahFrames),
              Frame(currentAyah', prefersReducedMotion'))

\* the commit that follows a handler: both effects, and no scrollTo
Rerender ==
  /\ surahScrollEffect
  /\ ayahScrollEffect
  /\ scrolled' = NoScroll

\* theme, preference and layout stay
Quiet == UNCHANGED <<darkMode, prefersReducedMotion, measure>>

\* the frame callback of the section selector
runSurahFrame ==
  /\ surahFrames # <<>>
  /\ surahFrames' = Tail(surahFrames)
  /\ scrolled' = [container |-> "surah", index |-> Head(surahFrames).index,
                  top2 |-> surahScrollTop2(measure),
                  instant |-> Head(surahFrames).instant]
  /\ ev' = [op |-> "surahFrame", arg |-> Head(surahFrames).index]
  /\ cmd' = NoCmd
  /\ UNCHANGED <<ayahs, surahs, currentSurah, currentAyah, loading, error,
                 audioRef, timers, responses, darkMode, prefersReducedMotion,
                 ayahFrames, measure>>

\* the frame callback of the item list
runAyahFrame ==
  /\ ayahFrames # <<>>
  /\ ayahFrames' = Tail(ayahFrames)
  /\ scrolled' = [container |-> "ayah", index |-> Head(ayahFrames).index,
                  top2 |-> ayahScrollTop2(measure),
                  instant |-> Head(ayahFrames).instant]
  /\ ev' = [op |-> "ayahFrame", arg |-> Head(ayahFrames).index]
  /\ cmd' = NoCmd
  /\ UNCHANGED <<ayahs, surahs, currentSurah, currentAyah, loading, error,
                 audioRef, timers, responses, darkMode, prefersReducedMotion,
                 surahFrames, measure>>

\* the media query reports a change: setPrefersReducedMotion(event.matches)
updatePreference(matches) ==
  /\ prefersReducedMotion' = matches
  /\ ev' = [op |-> "updatePreference", arg |-> IF matches THEN 1 ELSE 0]
  /\ cmd' = NoCmd
  /\ UNCHANGED <<ayahs, surahs, currentSurah, currentAyah, loading, error,
                 audioRef, timers, responses, darkMode, measure>>
  /\ Rerender

\* a bug that renders the player anew, with a fresh audio element
toggleDarkModeRemounting ==
  /\ Rendered
  /\ darkMode' = ~darkMode
  /\ audioRef' = Commit(currentSurah, "")
  /\ ev' = [op |-> "toggleDarkMode", arg |-> NULL]
  /\ cmd' = NoCmd
  /\ UNCHANGED <<ayahs, surahs, currentSurah, currentAyah, loading, error,
                 timers, responses, prefersReducedMotion, measure>>
  /\ Rerender

\* onClick={() => setDarkMode(!darkMode)}
toggleDarkMode ==
  /\ Rendered
  /\ darkMode' = ~darkMode
  /\ ev' = [op |-> "toggleDarkMode", arg |-> NULL]
  /\ cmd' = NoCmd
  /\ UNCHANGED <<ayahs, surahs, currentSurah, currentAyah, loading, error,
                 audioRef, timers, responses, prefersReducedMotion, measure>>
  /\ Rerender

(***************************************************************************)
(* The whole component: sequencer, focus synchronizer, preference, theme.  *)
(***************************************************************************)
InitUI == \E matches \in BOOLEAN : InitWith(matches, DefaultMeasure)

\* the recitation editions whose sections are numbered 1, 2, ... and whose
\* items all have a locator
NumberedEditions ==
  { ar \in ArEditions :
      \A si \in 1 .. Len(ar) :
        /\ ar[si].number = si
        /\ \A ai \in 1 .. Len(ar[si].ayahs) : ar[si].ayahs[ai].audio # Undefined }

NextUI ==
  \/ /\ loading
     /\ \E ar \in NumberedEditions :
          fetchAll(ar, Parallel(ar, "tr"), Parallel(ar, "en"))
     /\ Quiet /\ Rerender
  \/ fetchAllFail /\ Quiet /\ Rerender /\ UNCHANGED responses
  \/ \E si \in 0 .. (MaxSurahs - 1) :
       selectSection(si) /\ Quiet /\ Rerender /\ UNCHANGED responses
  \/ \E index \in -1 .. MaxItems :
       handlePlayAyah(index) /\ Quiet /\ Rerender /\ UNCHANGED responses
  \/ handleEnded /\ Quiet /\ Rerender /\ UNCHANGED responses
  \/ \E k \in 1 .. MaxTimers :
       ayahPauseElapsed(k) /\ Quiet /\ Rerender /\ UNCHANGED responses
  \/ \E k \in 1 .. MaxTimers :
       surahPauseElapsed(k) /\ Quiet /\ Rerender /\ UNCHANGED responses
  \/ playRejected /\ Quiet /\ Rerender /\ UNCHANGED responses
  \/ runSurahFrame
  \/ runAyahFrame
  \/ \E matches \in BOOLEAN : updatePreference(matches)
  \/ toggleDarkMode

SpecUI == InitUI /\ [][NextUI]_vars

(***************************************************************************)
(* The scroll computation on its own: a single section is loaded over      *)
(* every small layout, its items are selected, the frames run.             *)
(***************************************************************************)
\* the recitation editions with one section, numbered 1, every locator present
PlainEditions ==
  { ar \in ArEditions :
      /\ Len(ar) = 1
      /\ ar[1].number = 1
      /\ \A ai \in 1 .. Len(ar[1].ayahs) : ar[1].ayahs[ai].audio # Undefined }

InitScroll ==
  \E matches \in BOOLEAN : \E m \in Measures : InitWith(matches, m)

NextScroll ==
  \/ /\ loading
     /\ \E ar \in PlainEditions :
          fetchAll(ar, Parallel(ar, "tr"), Parallel(ar, "en"))
     /\ Quiet /\ Rerender
  \/ selectSection(0) /\ Quiet /\ Rerender /\ UNCHANGED responses
  \/ \E index \in 0 .. (MaxItems - 1) :
       handlePlayAyah(index) /\ Quiet /\ Rerender /\ UNCHANGED responses
  \/ runSurahFrame
  \/ runAyahFrame

SpecScroll == InitScroll /\ [][NextScroll]_vars

(***************************************************************************)
(* The content loader on its own: fetchAll applied to every recitation     *)
(* edition and every pair of text editions, whatever their shape.          *)
(***************************************************************************)
fetchAllDivergent ==
  /\ loading
  /\ \E ar \in ArEditions :
       \E tr \in DivergentEditions(ar, "tr") : \E en \in DivergentEditions(ar, "en") :
         fetchAll(ar, tr, en)

NextLoad ==
  \/ fetchAllDivergent /\ UNCHANGED uiVars
  \/ fetchAllFail /\ UNCHANGED <<responses, uiVars>>

SpecLoad == Init /\ [][NextLoad]_vars

(***************************************************************************)
(* Vocabulary of the properties.                                           *)
(***************************************************************************)
SurahNumbers == { surahs[k].number : k \in 1 .. Len(surahs) }

\* the Playback Position names an item of the active section
ItemIsCurrent == currentAyah # NULL /\ Has(filteredAyahs, currentAyah)

CurrentAudio == At(filteredAyahs, currentAyah).audio

\* the section n has a first item and its locator is not empty
FirstAudioPresent(n) ==
  Len(ayahsOf(n)) > 0 /\ At(ayahsOf(n), 0).audio # ""

LaterSurahs(n) == { m \in SurahNumbers : m > n }

SmallestLater(n) ==
  CHOOSE m \in LaterSurahs(n) : \A o \in LaterSurahs(n) : m <= o

\* the position is the last item of its section
AtLastAyah == ItemIsCurrent /\ currentAyah = Len(filteredAyahs) - 1

\* the last step was a manual selection that set the Playback Position
ManualSelectionActed ==
  \/ ev.op = "selectSection"
  \/ ev.op = "selectItem" /\ Has(filteredAyahs, ev.arg)

PositionUnchanged == currentSurah' = currentSurah /\ currentAyah' = currentAyah

\* the step touched neither the position, nor the device, nor the timers
NothingDone ==
  /\ PositionUnchanged
  /\ audioRef' = audioRef
  /\ timers' = timers
  /\ error' = error
  /\ ~cmd'.play

(***************************************************************************)
(* C1 (race guard): when a settling timer fires right after a manual       *)
(* selectSection or selectItem that was made while the timer was pending,  *)
(* the Playback Position stays the one the manual selection set.           *)
(***************************************************************************)
C1_RaceGuard ==
  [][ (ManualSelectionActed /\ ev'.op \in {"timer1s", "timer2s"})
        => PositionUnchanged ]_vars

(***************************************************************************)
(* C2: after selectSection of a section that has at least one item the     *)
(* Playback Position is (that section, 0), whatever the state before.      *)
(***************************************************************************)
C2_SelectSectionPosition ==
  (ev.op = "selectSection" /\ Len(ayahsOf(ev.arg)) > 0)
    => (currentSurah = ev.arg /\ currentAyah = 0)

\* a section with items was selected while an auto-advance was pending
C2_Witness ==
  /\ ev.op = "selectSection"
  /\ Len(ayahsOf(ev.arg)) > 0
  /\ timers # <<>>
  /\ currentSurah = ev.arg
  /\ currentAyah = 0

(***************************************************************************)
(* C3: selectSection of a section whose first item has a non-empty audio   *)
(* locator issues, in the same step, the play command for that locator,    *)
(* also when it is the first selection made from the idle state.           *)
(***************************************************************************)
C3_SelectSectionPlaysAtOnce ==
  (ev.op = "selectSection" /\ FirstAudioPresent(ev.arg))
    => cmd = Play(At(ayahsOf(ev.arg), 0).audio)

(***************************************************************************)
(* C4: after selectSection of a section without items the Playback         *)
(* Position is (that section, none) and no play command was issued.        *)
(***************************************************************************)
C4_SelectEmptySection ==
  (ev.op = "selectSection" /\ Len(ayahsOf(ev.arg)) = 0)
    => (currentSurah = ev.arg /\ currentAyah = NULL /\ ~cmd.play)

(***************************************************************************)
(* C5: the item index of the Playback Position, when present, is a valid   *)
(* index into the items of the active section.                             *)
(***************************************************************************)
C5_IndexInRange ==
  currentAyah # NULL => Has(filteredAyahs, currentAyah)

(***************************************************************************)
(* C6 (within-section advance): a finished event at (S, i) with i+1 < N    *)
(* moves the position to (S, i+1), loads item i+1, issues no play command  *)
(* and starts exactly the 1-second timer; the play command for item i+1's  *)
(* (non-empty) locator is issued by the step in which that timer fires,    *)
(* which leaves the position alone.                                        *)
(***************************************************************************)
C6_WithinSectionAdvance ==
  [][ /\ (ev'.op = "ended" /\ ItemIsCurrent
            /\ currentAyah + 1 < Len(filteredAyahs))
         => /\ currentSurah' = currentSurah
            /\ currentAyah' = currentAyah + 1
            /\ audioRef'.src = At(filteredAyahs, currentAyah + 1).audio
            /\ timers' = Append(timers, AyahTimer)
            /\ ~cmd'.play
      /\ (ev.op = "ended" /\ ev.arg = AyahPause /\ ev'.op = "timer1s"
            /\ CurrentAudio # "")
         => /\ PositionUnchanged
            /\ cmd' = Play(CurrentAudio)
            /\ Len(timers') = Len(timers) - 1 ]_vars

\* the 1-second timer of an advance to a later item has fired and played it
C6_Witness ==
  /\ ev.op = "timer1s"
  /\ ItemIsCurrent
  /\ currentAyah >= 1
  /\ CurrentAudio # ""
  /\ cmd = Play(CurrentAudio)

AtEndOfContent == AtLastAyah /\ LaterSurahs(currentSurah) = {}

C9_EmptyLocatorNotPlayed ==
  (ItemIsCurrent /\ CurrentAudio = "") => ~cmd.play

(***************************************************************************)
(* C10 (invalid selection): selectItem with an index outside the active    *)
(* section's items (any index when no section is active) changes neither   *)
(* position, device source, timers nor the error state and issues no play  *)
(* command; a section selection is only ever made for a loaded section.    *)
(***************************************************************************)
C10_InvalidSelectionNoOp ==
  [][ /\ (ev'.op = "selectItem" /\ ~Has(filteredAyahs, ev'.arg))
         => NothingDone
      /\ ev'.op = "selectSection" => ev'.arg \in SurahNumbers ]_vars

\* an out-of-range selectItem arrived while an item was active and a timer
\* was pending
C10_Witness ==
  /\ ev.op = "selectItem"
  /\ ~Has(filteredAyahs, ev.arg)
  /\ ItemIsCurrent
  /\ timers # <<>>

(***************************************************************************)
(* C11 (playback rejection absorbed): when the play() call of the last     *)
(* step is rejected, the position, the device source, the pending timers   *)
(* and the error state stay as that step left them, and the player is      *)
(* still rendered, so that its handlers keep receiving events.             *)
(***************************************************************************)
C11_PlayRejectionAbsorbed ==
  [][ ev'.op = "playRejected"
        => /\ PositionUnchanged
           /\ audioRef' = audioRef
           /\ timers' = timers
           /\ error' = error
           /\ loading' = loading
           /\ Rendered' ]_vars

\* the play() issued for the current item was rejected
C11_Witness ==
  /\ ev.op = "playRejected"
  /\ ItemIsCurrent
  /\ audioRef.src = CurrentAudio
  /\ Rendered

(***************************************************************************)
(* C12 (load failure): in the error state the section list and the item    *)
(* list are both empty, loading has ended, the Playback Position is        *)
(* (none, none), the audio element is not mounted and no timer is pending. *)
(***************************************************************************)
C12_LoadFailureAllOrNothing ==
  error # NoError
    => /\ surahs = <<>>
       /\ ayahs = <<>>
       /\ ~loading
       /\ currentSurah = NULL
       /\ currentAyah = NULL
       /\ ~audioRef.current
       /\ timers = <<>>
       /\ ~cmd.play

\* the load has failed
C12_Witness ==
  /\ error # NoError
  /\ ev.op = "fetchFail"
  /\ ~loading

(***************************************************************************)
(* C14: a finished event that arrives while no section is active or while  *)
(* the active section has no items changes neither the position, nor the   *)
(* device, nor the timers, and issues no command.                          *)
(***************************************************************************)
C14_EndedIgnored ==
  [][ (ev'.op = "ended" /\ (currentSurah = NULL \/ Len(filteredAyahs) = 0))
        => NothingDone ]_vars

\* the audio of an earlier section has finished while an empty section that
\* is not the last one is active
C14_Witness ==
  /\ ev.op = "ended"
  /\ currentSurah # NULL
  /\ Len(filteredAyahs) = 0
  /\ LaterSurahs(currentSurah) # {}
  /\ timers = <<>>

(***************************************************************************)
(* C20 (device/position consistency): whenever a step issues a play        *)
(* command, the Playback Position names an item and the source loaded in   *)
(* the audio element is that item's audio locator.                         *)
(***************************************************************************)
C20_DevicePositionConsistent ==
  cmd.play => (ItemIsCurrent /\ audioRef.src = CurrentAudio)

(***************************************************************************)
(* C18 (positional merge): after a successful load the section list is the *)
(* recitation edition's, in the order received; the item list holds        *)
(* exactly that edition's items, section after section in the order        *)
(* received; the item at position N of the section at position K carries   *)
(* the texts found at position N of the section at position K of the two   *)
(* text editions, or the empty string when there is no such position; a    *)
(* missing audio locator is the empty string.                              *)
(***************************************************************************)
\* the number of items received before the section at position si
ItemsBefore(ed, si) == TotalAyahs(SubSeq(ed, 1, si - 1))

\* the text at (si, ai) of an edition, "" when the edition has no such place
TextOrEmpty(ed, si, ai) ==
  IF si <= Len(ed) /\ ai <= Len(ed[si].ayahs) THEN ed[si].ayahs[ai].text ELSE ""

Loaded == ~loading /\ error = NoError

C18_PositionalMerge ==
  Loaded =>
    LET ar == responses.ar
        tr == responses.tr
        en == responses.en
    IN  /\ Len(surahs) = Len(ar)
        /\ \A si \in 1 .. Len(ar) : surahs[si].number = ar[si].number
        /\ Len(ayahs) = TotalAyahs(ar)
        /\ \A si \in 1 .. Len(ar) : \A ai \in 1 .. Len(ar[si].ayahs) :
             LET item == ayahs[ItemsBefore(ar, si) + ai]
                 raw  == ar[si].ayahs[ai]
             IN  /\ item.number = raw.number
                 /\ item.text = raw.text
                 /\ item.surah.number = ar[si].number
                 /\ item.audio = (IF raw.audio = Undefined THEN "" ELSE raw.audio)
                 /\ item.transliteration = TextOrEmpty(tr, si, ai)
                 /\ item.translation = TextOrEmpty(en, si, ai)

\* a load in which the transliteration lost its first section and the
\* translation the last item of every section, and an item had no locator
C18_Witness ==
  /\ Loaded
  /\ Len(responses.ar) > 1
  /\ Len(responses.ar[1].ayahs) > 0
  /\ Len(responses.ar[2].ayahs) > 0
  /\ responses.tr = DropFirstSurah(Parallel(responses.ar, "tr"))
  /\ responses.en = DropLastAyahs(Parallel(responses.ar, "en"))
  /\ \E k \in 1 .. Len(ayahs) : ayahs[k].audio = ""
  /\ \E k \in 1 .. Len(ayahs) : ayahs[k].translation = ""
  /\ \E k \in 1 .. Len(ayahs) :
       ayahs[k].transliteration \notin { "", TextOf("tr", ayahs[k].surah.number, 1) }

(***************************************************************************)
(* C13 (auto-advance in order): when every section has items and every     *)
(* item has a locator, a step of the auto-advance (a finished event, a     *)
(* firing timer, a settled play) taken while an item is current either     *)
(* leaves the Playback Position or moves it to the next item: the next     *)
(* index of the section, or the first item of the next section when the    *)
(* current item is the last of its section.                                *)
(***************************************************************************)
AllPlayable ==
  /\ \A k \in 1 .. Len(ayahs) : ayahs[k].audio # ""
  /\ \A n \in SurahNumbers : Len(ayahsOf(n)) > 0

AutoAdvanceOps == {"ended", "timer1s", "timer2s", "playRejected"}

MovedToNextItem ==
  \/ /\ currentSurah' = currentSurah
     /\ currentAyah' = currentAyah + 1
     /\ Has(filteredAyahs, currentAyah + 1)
  \/ /\ AtLastAyah
     /\ LaterSurahs(currentSurah) # {}
     /\ currentSurah' = SmallestLater(currentSurah)
     /\ currentAyah' = 0

C13_AutoAdvanceInOrder ==
  [][ (AllPlayable /\ ItemIsCurrent /\ ev'.op \in AutoAdvanceOps)
        => (PositionUnchanged \/ MovedToNextItem) ]_vars

(***************************************************************************)
(* C15 (scroll target): for every container height H, element top T and    *)
(* element height E, a scroll command of either container carries the      *)
(* offset T - H/2 + E/2 when that is not negative and 0 otherwise; for     *)
(* H = 400, T = 1000, E = 50 it carries 825.  Offsets are in half pixels.  *)
(***************************************************************************)
C15_ScrollTarget ==
  scrolled # NoScroll =>
    LET m == measure IN
    /\ scrolled.top2 >= 0
    /\ (2 * m.T + m.E >= m.H) => (scrolled.top2 + m.H = 2 * m.T + m.E)
    /\ (2 * m.T + m.E < m.H) => (scrolled.top2 = 0)
    /\ (m.H = 400 /\ m.T = 1000 /\ m.E = 50) => (scrolled.top2 = 2 * 825)

\* the item list was scrolled in a layout where the element stands above the
\* middle of the container, so that the offset was clamped
C15_Witness ==
  /\ scrolled.container = "ayah"
  /\ 2 * measure.T + measure.E < measure.H
  /\ scrolled.top2 = 0
  /\ ev.op = "ayahFrame"

(***************************************************************************)
(* C16: a step that changes the section of the Playback Position requests  *)
(* a frame for the section selector that targets the new section's         *)
(* button; a step that changes the section or the item requests a frame    *)
(* for the item list that targets the new item, when the new position      *)
(* names an item; a frame that runs issues the scroll command of its       *)
(* container for the element of the current position.                      *)
(***************************************************************************)
SurahIndex == FindIndex([k \in 1 .. Len(surahs) |-> surahs[k].number], currentSurah)

C16_PositionChangeScrolls ==
  [][ /\ currentSurah' # currentSurah
         => surahFrame' = Frame(SurahIndex', prefersReducedMotion')
      /\ ((currentSurah' # currentSurah \/ currentAyah' # currentAyah)
            /\ ItemIsCurrent')
         => ayahFrame' = Frame(currentAyah', prefersReducedMotion')
      /\ ev'.op = "surahFrame"
         => /\ surahFrame.pending
            /\ scrolled'.container = "surah"
            /\ scrolled'.index = SurahIndex
            /\ scrolled'.top2 = surahScrollTop2(measure)
      /\ ev'.op = "ayahFrame"
         => /\ ayahFrame.pending
            /\ scrolled'.container = "ayah"
            /\ scrolled'.index = currentAyah
            /\ ItemIsCurrent
            /\ scrolled'.top2 = ayahScrollTop2(measure) ]_vars

\* the item list was scrolled to the first item of a later section
C16_Witness ==
  /\ ev.op = "ayahFrame"
  /\ scrolled.container = "ayah"
  /\ scrolled.index = 0
  /\ currentAyah = 0
  /\ SurahIndex > 0
  /\ ItemIsCurrent

(***************************************************************************)
(* C17: every scroll command is instant exactly when the reduced-motion    *)
(* preference is active at that time, and so is every frame that is        *)
(* pending; the preference is the value the media query delivered last.    *)
(***************************************************************************)
C17_InstantIffReducedMotion ==
  /\ scrolled # NoScroll => scrolled.instant = prefersReducedMotion
  /\ surahFrame.pending => surahFrame.instant = prefersReducedMotion
  /\ ayahFrame.pending => ayahFrame.instant = prefersReducedMotion
  /\ ev.op = "updatePreference" => prefersReducedMotion = (ev.arg = 1)

\* reduced motion was switched on after the section had been scrolled to,
\* and the section selector was scrolled once more, instantly
C17_Witness ==
  /\ scrolled.container = "surah"
  /\ scrolled.instant
  /\ prefersReducedMotion
  /\ ayahFrame.pending
  /\ ayahFrame.instant

(***************************************************************************)
(* C19: a frame callback, a preference change and the dark-mode toggle     *)
(* leave the Playback Position, the audio element and the pending timers   *)
(* unchanged and issue no play command; the position, the loaded source    *)
(* and play commands change only in steps of selectSection, selectItem,    *)
(* the finished event and its two delayed continuations.                   *)
(***************************************************************************)
SequencerOps == {"selectSection", "selectItem", "ended", "timer1s", "timer2s"}

C19_OnlySequencerDrivesDevice ==
  [][ /\ ev'.op \in {"surahFrame", "ayahFrame", "updatePreference", "toggleDarkMode"}
         => /\ PositionUnchanged
            /\ audioRef' = audioRef
            /\ timers' = timers
            /\ ~cmd'.play
      /\ (~PositionUnchanged \/ audioRef'.src # audioRef.src \/ cmd'.play)
         => ev'.op \in SequencerOps ]_vars

\* the theme was switched while a source was loaded and a timer was pending
C19_Witness ==
  /\ ev.op = "toggleDarkMode"
  /\ darkMode
  /\ audioRef.src # ""
  /\ timers # <<>>

(***************************************************************************)
(* C21: the step of the 1-second timer issues a play command on the source *)
(* the audio element holds at that time and does nothing else: the         *)
(* Playback Position and the loaded source stay, so that a selection made  *)
(* during the pause keeps its position and its locator.                    *)
(***************************************************************************)
C21_AyahTimerOnlyPlays ==
  [][ ev'.op = "timer1s"
        => /\ PositionUnchanged
           /\ audioRef' = audioRef
           /\ cmd' = Play(audioRef.src)
           /\ error' = error
           /\ Len(timers') = Len(timers) - 1 ]_vars

\* the timer has fired after the first item of a section was selected
\* during the pause: the item and its locator stand, and it is played
C21_Witness ==
  /\ ev.op = "timer1s"
  /\ currentAyah = 0
  /\ ItemIsCurrent
  /\ CurrentAudio # ""
  /\ audioRef.src = CurrentAudio
  /\ cmd = Play(CurrentAudio)

(***************************************************************************)
(* C22 (stale scrolls cancelled): the browser holds at most one frame      *)
(* callback of each scroll effect; a callback it holds targets the element *)
(* of the current Playback Position and carries the current reduced-motion *)
(* flag; a scroll command that is applied targets the element of the       *)
(* Playback Position of that moment.                                       *)
(***************************************************************************)
C22_StaleScrollsCancelled ==
  /\ Len(surahFrames) <= 1
  /\ Len(ayahFrames) <= 1
  /\ \A k \in 1 .. Len(surahFrames) :
       /\ currentSurah # NULL
       /\ surahFrames[k] = Frame(SurahIndex, prefersReducedMotion)
  /\ \A k \in 1 .. Len(ayahFrames) :
       /\ ItemIsCurrent
       /\ ayahFrames[k] = Frame(currentAyah, prefersReducedMotion)
  /\ scrolled.container = "surah"
       => (currentSurah # NULL /\ scrolled.index = SurahIndex)
  /\ scrolled.container = "ayah"
       => (ItemIsCurrent /\ scrolled.index = currentAyah)

\* a later item was selected while the frame of the section selector was
\* still to run: the item list has one frame pending, for that item
C22_Witness ==
  /\ ev.op = "selectItem"
  /\ ev.arg = currentAyah
  /\ currentAyah > 0
  /\ surahFrames # <<>>
  /\ ayahFrames = <<Frame(currentAyah, prefersReducedMotion)>>

====
